---- MODULE Spec2Model ----
(***************************************************************************)
(* AdapterRemoval: the run driver remove_adapter_sequences and the two     *)
(* record pipelines process_single_ended_reads and                         *)
(* process_paired_ended_reads of src/main_adapter_rm.cc, with the          *)
(* statistics they keep and the output streams they write.                 *)
(*                                                                         *)
(* One action is one stage of the driver or one whole iteration of a       *)
(* processing loop (read, body, ++stats.records).  The FASTQ reader, the   *)
(* aligner, the classifier, the truncation/collapse engine and the         *)
(* trimmers live in fastq.h, alignment.h and userconfig.h; they are        *)
(* modelled from their contracts, and what they return that depends on the *)
(* bases of a read is an input of the iteration.  A read is its record     *)
(* index, mate, length, orientation and header prefix; every input read    *)
(* has MaxLen bases.  Writes to the output streams succeed; opening a      *)
(* stream, reading a record and writing the settings or the statistics     *)
(* may fail.                                                               *)
(***************************************************************************)
EXTENDS Integers, Sequences, FiniteSets, TLC

VARIABLES
    config,     \* userconfig: the mode flags of the run
    input,      \* the input files: records in each, records consumed from each,
                \* whether the mate 1 reads start with a barcode
    pc,         \* the driver's position
    exit_code,  \* what remove_adapter_sequences returned (-1 while running)
    stats,      \* statistics
    read1,      \* fastq read / read1 (declared outside the loop body)
    read2,      \* fastq read2
    collapsed_read, \* fastq collapsed_read, as last built
    out,        \* the output streams, each the sequence of records written
    settings,   \* the sections written to the settings stream
    err_index,  \* the record index printed by the catch handlers (-1: none)
    err_what,   \* the error reported on std::cerr ("none": no error)
    average,    \* the average read length write_statistics put in the report
    stages,     \* history: the calls the last completed iteration made, in order
    log         \* history: what happened to each processed record or pair

vars == <<config, input, pc, exit_code, stats, read1, read2, collapsed_read,
          out, settings, err_index, err_what, average, stages, log>>

----------------------------------------------------------------------------
(* Bounds of the model *)

MaxRecords == 2
MaxLen == 2

(* Sizes of the catalogs and thresholds of the configuration *)

NumAdapters == 2
NumBarcodes == 1
MinAlignmentLength == 1
MismatchNum == 1
MismatchDen == 3

----------------------------------------------------------------------------
(* Helpers *)

Min(a, b) == IF a < b THEN a ELSE b

Max(a, b) == IF a > b THEN a ELSE b

B2N(b) == IF b THEN 1 ELSE 0

StreamNames == {"output1", "output2", "singleton", "collapsed",
                "collapsed_truncated", "discarded"}

----------------------------------------------------------------------------
(* fastq: a record is its origin, its length, its orientation and the      *)
(* prefix added to its header.  mate 0 is a consensus read.  An output     *)
(* stream is the sequence of the headers written to it.                    *)

NoRead == [idx |-> -1, mate |-> 0, len |-> 0, rc |-> FALSE, prefix |-> ""]

NewRead(i, m, l) == [idx |-> i, mate |-> m, len |-> l, rc |-> FALSE, prefix |-> ""]

reverse_complement(r) == [r EXCEPT !.rc = ~r.rc]

add_prefix_to_header(r, p) == [r EXCEPT !.prefix = p]

Header(r) == [idx |-> r.idx, mate |-> r.mate, rc |-> r.rc, prefix |-> r.prefix]

EmptyStream == <<>>

(* History of the run: for each processed record or pair its index, the    *)
(* path it took ("single", "permate", "collapse"), what is_acceptable_read *)
(* answered (a1: the read, mate 1 or the consensus; a2: mate 2) and        *)
(* whether quality trimming removed bases from the consensus.              *)
LogEntry(i, path, a1, a2, trimmed) ==
    [idx |-> i, path |-> path, a1 |-> a1, a2 |-> a2, trimmed |-> trimmed]

(* write, inserting at the front of the stream *)
write_Prepend(stream, r) == <<Header(r)>> \o stream

write(stream, r) == Append(stream, Header(r))

(* trim_barcodes_if_enabled: a barcode hit removes the barcode from the    *)
(* 5' end and counts it.  In a run with barcode trimming the mate 1 reads  *)
(* start with a barcode of the catalog.                                    *)
BarcodeHits == IF config.trim_barcodes_mode THEN {input.barcoded} ELSE {FALSE}

trim_barcodes_read(r, hit) ==
    IF config.trim_barcodes_mode /\ hit /\ r.len > 0
    THEN [r EXCEPT !.len = r.len - 1] ELSE r

trim_barcodes_stats(s, r, hit, b) ==
    IF config.trim_barcodes_mode /\ hit /\ r.len > 0
    THEN [s EXCEPT !.number_of_barcodes_trimmed[b] = @ + 1] ELSE s

(* trim_sequence_by_quality_if_enabled: removes t.first bases from the 5'  *)
(* end and t.second from the 3' end and returns t.                         *)
Trims(r) == {t \in {<<0, 0>>, <<1, 0>>, <<0, 1>>} : t[1] + t[2] <= r.len}

trim_sequence_by_quality(r, t) == [r EXCEPT !.len = r.len - t[1] - t[2]]

(* The alignments align_single_ended_sequence can return for a read of     *)
(* length l: adapter adapter_id starts at position offset of the read and  *)
(* overlaps it in length bases, of which n_mismatches differ.  Alignments  *)
(* that are not valid are represented by one of each class.                *)
Alignments(l) ==
    {a \in [adapter_id : 0..(NumAdapters - 1), offset : 0..l,
            length : 0..l, n_mismatches : 0..l] :
        /\ a.length <= l - a.offset
        /\ a.n_mismatches \in {0, a.length}
        /\ a.length = 0 \/ a.n_mismatches > 0 => a.offset = 0 /\ a.adapter_id = 0}

evaluate_alignment(a) ==
    IF a.length = 0 THEN "not_aligned"
    ELSE IF a.length < MinAlignmentLength
            \/ a.n_mismatches * MismatchDen > a.length * MismatchNum
         THEN "poor_alignment"
         ELSE "valid_alignment"

truncate_single_ended_sequence(a, r) == [r EXCEPT !.len = Min(r.len, a.offset)]

(* truncate_paired_ended_sequences: both mates are cut to the template      *)
(* length the alignment implies (the position of mate 1 at which the       *)
(* adapter starts); the count of mates shortened is returned.              *)
TemplateLength(a) == a.offset

truncate_paired_1(a, r) == [r EXCEPT !.len = Min(r.len, TemplateLength(a))]

truncate_paired_2(a, r) == [r EXCEPT !.len = Min(r.len, TemplateLength(a))]

truncate_paired_count(a, r1, r2) ==
    B2N(truncate_paired_1(a, r1).len < r1.len)
    + B2N(truncate_paired_2(a, r2).len < r2.len)

(* collapse_paired_ended_sequences: one consensus record spanning the      *)
(* truncated mates.                                                        *)
collapse_paired_ended_sequences(a, r1, r2) ==
    [idx |-> r1.idx, mate |-> 0, len |-> Max(r1.len, r2.len),
     rc |-> FALSE, prefix |-> ""]

----------------------------------------------------------------------------
(* statistics *)

create_stats ==
    [records |-> 0, unaligned_reads |-> 0, well_aligned_reads |-> 0,
     poorly_aligned_reads |-> 0, discard1 |-> 0, keep1 |-> 0,
     discard2 |-> 0, keep2 |-> 0,
     number_of_barcodes_trimmed |-> [b \in 0..(NumBarcodes - 1) |-> 0],
     number_of_reads_with_adapter |-> [a \in 0..(NumAdapters - 1) |-> 0],
     number_of_full_length_collapsed |-> 0,
     number_of_truncated_collapsed |-> 0,
     total_number_of_good_reads |-> 0,
     total_number_of_nucleotides |-> 0]

(* write_statistics: the average read length of the retained reads, a      *)
(* double.  A quotient is kept as the fraction in lowest terms; a division *)
(* by zero yields no finite number (den = 0).                              *)
RECURSIVE GCD(_, _)
GCD(a, b) == IF b = 0 THEN a ELSE GCD(b, a % b)

Divide(n, d) ==
    IF d = 0 THEN [num |-> n, den |-> 0]
    ELSE [num |-> n \div GCD(n, d), den |-> d \div GCD(n, d)]

ZeroLength == [num |-> 0, den |-> 1]

(* Nothing reported yet *)
NoAverage == [num |-> -1, den |-> 1]

(* The quotient taken without looking at the number of retained reads *)
AverageLength_Unguarded(s) ==
    Divide(s.total_number_of_nucleotides, s.total_number_of_good_reads)

(* stats.total_number_of_good_reads ? double(nucleotides) / good_reads : 0 *)
AverageLength(s) ==
    IF s.total_number_of_good_reads # 0
    THEN Divide(s.total_number_of_nucleotides, s.total_number_of_good_reads)
    ELSE ZeroLength

----------------------------------------------------------------------------
(* Initial state: a configuration and two input files *)

Init ==
    /\ config \in [paired_ended_mode : BOOLEAN, collapse : BOOLEAN,
                   trim_barcodes_mode : BOOLEAN]
    /\ \E n1 \in 0..MaxRecords, n2 \in 0..MaxRecords :
          /\ (~config.paired_ended_mode => n2 = 0)
          /\ (~config.paired_ended_mode => ~config.collapse)
          /\ input = [n1 |-> n1, n2 |-> n2, pos1 |-> 0, pos2 |-> 0,
                      barcoded |-> config.trim_barcodes_mode]
    /\ pc = "open_settings"
    /\ exit_code = -1
    /\ stats = create_stats
    /\ read1 = NoRead
    /\ read2 = NoRead
    /\ collapsed_read = NoRead
    /\ out = [s \in StreamNames |-> EmptyStream]
    /\ settings = <<>>
    /\ err_index = -1
    /\ err_what = "none"
    /\ average = NoAverage
    /\ stages = <<>>
    /\ log = <<>>

----------------------------------------------------------------------------
(* remove_adapter_sequences: the stages around the processing loop *)

Exit(code, what) ==
    /\ pc' = "exit"
    /\ exit_code' = code
    /\ err_what' = what

OpenSettings ==
    /\ pc = "open_settings"
    /\ \E ok \in BOOLEAN :
          IF ok THEN pc' = "write_settings" /\ UNCHANGED <<exit_code, err_what>>
                ELSE Exit(1, "open_settings")
    /\ UNCHANGED <<config, input, stats, read1, read2, collapsed_read, out, settings,
                   err_index, log>>
    /\ UNCHANGED <<average, stages>>

WriteSettings ==
    /\ pc = "write_settings"
    /\ \E ok \in BOOLEAN :
          IF ok
          THEN /\ settings' = Append(settings, "settings")
               /\ pc' = "open_streams"
               /\ UNCHANGED <<exit_code, err_what>>
          ELSE /\ settings' = Append(settings, "settings_failed")
               /\ Exit(1, "write_settings")
    /\ stats' = create_stats
    /\ UNCHANGED <<config, input, read1, read2, collapsed_read, out, err_index, log>>
    /\ UNCHANGED <<average, stages>>

(* The driver, entering the loop again after process_*_reads failed *)
ProcessReturned_Retry(ok) == IF ok THEN "write_statistics" ELSE "loop"

(* The driver, ignoring what process_*_reads returned *)
ProcessReturned_Ignored(ok) == "write_statistics"

(* The driver after process_*_reads returned ok: write the statistics, or  *)
(* return 1 without them.                                                  *)
ProcessReturned(ok) == IF ok THEN "write_statistics" ELSE "exit"

Return(ok) ==
    /\ pc' = ProcessReturned(ok)
    /\ exit_code' = IF pc' = "exit" THEN 1 ELSE exit_code

(* The handlers, printing a one-based index *)
ErrorIndex_OneBased(s) == s.records + 1

(* catch (fastq_error) / catch (ios_base::failure): print stats.records    *)
(* and the error, return false.                                            *)
ErrorIndex(s) == s.records

Abort(what) ==
    /\ err_index' = ErrorIndex(stats)
    /\ err_what' = what
    /\ Return(FALSE)

ReadErrors == {"malformed_record", "read_io_failure"}

OpenStreams ==
    /\ pc = "open_streams"
    /\ \E ok \in BOOLEAN :
          IF ok THEN pc' = "loop" /\ UNCHANGED <<exit_code, err_what>>
                ELSE Return(FALSE) /\ err_what' = "open_streams"
    /\ UNCHANGED <<config, input, stats, read1, read2, collapsed_read, out, settings,
                   err_index, log>>
    /\ UNCHANGED <<average, stages>>

(* The driver, returning 0 whatever write_statistics returned *)
StatisticsExit_Unchecked(ok) == 0

(* if (!write_statistics(...)) return 1; return 0; *)
StatisticsExit(ok) == IF ok THEN 0 ELSE 1

WriteStatistics ==
    /\ pc = "write_statistics"
    /\ \E ok \in BOOLEAN :
          /\ settings' = Append(settings, IF ok THEN "statistics"
                                                ELSE "statistics_failed")
          /\ Exit(StatisticsExit(ok), IF ok THEN "none" ELSE "write_statistics")
    /\ UNCHANGED <<config, input, stats, read1, read2, collapsed_read, out, err_index, log>>
    /\ average' = AverageLength(stats)
    /\ UNCHANGED stages

----------------------------------------------------------------------------
(* The loop header: ++stats.records after every iteration, also after a    *)
(* continue.                                                               *)
NextRecord(s) == [s EXCEPT !.records = @ + 1]

(* The adapter counted for a poor alignment too *)
ClassifyStats_AdapterOnPoor(s, aln_type, adapter_id, n_adapters) ==
    IF aln_type = "valid_alignment"
    THEN [s EXCEPT !.well_aligned_reads = @ + 1,
                   !.number_of_reads_with_adapter[adapter_id] = @ + n_adapters]
    ELSE IF aln_type = "poor_alignment"
         THEN [s EXCEPT !.poorly_aligned_reads = @ + 1,
                        !.number_of_reads_with_adapter[adapter_id] = @ + n_adapters]
         ELSE [s EXCEPT !.unaligned_reads = @ + 1]

(* The classification branch with the else before the last counter lost   *)
ClassifyStats_NoElse(s, aln_type, adapter_id, n_adapters) ==
    IF aln_type = "valid_alignment"
    THEN [s EXCEPT !.well_aligned_reads = @ + 1,
                   !.number_of_reads_with_adapter[adapter_id] = @ + n_adapters]
    ELSE IF aln_type = "poor_alignment"
         THEN [s EXCEPT !.poorly_aligned_reads = @ + 1,
                        !.unaligned_reads = @ + 1]
         ELSE [s EXCEPT !.unaligned_reads = @ + 1]

(* The classification branch of both loops *)
ClassifyStats(s, aln_type, adapter_id, n_adapters) ==
    IF aln_type = "valid_alignment"
    THEN [s EXCEPT !.well_aligned_reads = @ + 1,
                   !.number_of_reads_with_adapter[adapter_id] = @ + n_adapters]
    ELSE IF aln_type = "poor_alignment"
         THEN [s EXCEPT !.poorly_aligned_reads = @ + 1]
         ELSE [s EXCEPT !.unaligned_reads = @ + 1]

----------------------------------------------------------------------------
(* process_single_ended_reads *)

(* keep1 counted for every read *)
SingleKeepStats_KeepAll(s, r, acceptable) ==
    IF acceptable
    THEN [s EXCEPT !.keep1 = @ + 1,
                   !.total_number_of_good_reads = @ + 1,
                   !.total_number_of_nucleotides = @ + r.len]
    ELSE [s EXCEPT !.keep1 = @ + 1, !.discard1 = @ + 1]

SingleKeepStats(s, r, acceptable) ==
    IF acceptable
    THEN [s EXCEPT !.keep1 = @ + 1,
                   !.total_number_of_good_reads = @ + 1,
                   !.total_number_of_nucleotides = @ + r.len]
    ELSE [s EXCEPT !.discard1 = @ + 1]

(* The write to the discarded stream made for every read *)
SingleWrite_NoElse(o, r, acceptable) ==
    LET o1 == [o EXCEPT !["discarded"] = write(@, r)]
    IN IF acceptable THEN [o1 EXCEPT !["output1"] = write(@, r)] ELSE o1

SingleWrite(o, r, acceptable) ==
    IF acceptable
    THEN [o EXCEPT !["output1"] = write(@, r)]
    ELSE [o EXCEPT !["discarded"] = write(@, r)]

(* The calls of one iteration of the single-end loop, in program order;   *)
(* the call of evaluate_alignment is recorded as the class it returned.    *)
SingleStages(aln_type) ==
    <<"read", "trim_barcodes", "align", aln_type>>
    \o (IF aln_type = "valid_alignment" THEN <<"truncate">> ELSE <<>>)
    \o <<"quality_trim", "is_acceptable", "write">>

SingleEnd ==
    /\ pc = "loop"
    /\ ~config.paired_ended_mode
    /\ input.pos1 = input.n1
    /\ Return(TRUE)
    /\ UNCHANGED <<config, input, stats, read1, read2, collapsed_read, out, settings,
                   err_index, err_what, log>>
    /\ UNCHANGED <<average, stages>>

SingleReadFails ==
    /\ pc = "loop"
    /\ ~config.paired_ended_mode
    /\ \E what \in ReadErrors : Abort(what)
    /\ UNCHANGED <<config, input, stats, read1, read2, collapsed_read, out, settings, log>>
    /\ UNCHANGED <<average, stages>>

SingleIteration ==
    /\ pc = "loop"
    /\ ~config.paired_ended_mode
    /\ input.pos1 < input.n1
    /\ \E l \in {MaxLen}, hit \in BarcodeHits, b \in 0..(NumBarcodes - 1),
          acceptable \in BOOLEAN :
        LET r0 == NewRead(input.pos1, 1, l)
            r1 == trim_barcodes_read(r0, hit)
            s1 == trim_barcodes_stats(stats, r0, hit, b)
        IN \E a \in Alignments(r1.len) :
           LET aln_type == evaluate_alignment(a)
               r2 == IF aln_type = "valid_alignment"
                     THEN truncate_single_ended_sequence(a, r1) ELSE r1
               s2 == ClassifyStats(s1, aln_type, a.adapter_id, 1)
           IN \E t \in Trims(r2) :
              LET r3 == trim_sequence_by_quality(r2, t)
              IN /\ read1' = r3
                 /\ stats' = NextRecord(SingleKeepStats(s2, r3, acceptable))
                 /\ out' = SingleWrite(out, r3, acceptable)
                 /\ log' = Append(log, LogEntry(r0.idx, "single", acceptable, FALSE, FALSE))
                 /\ stages' = SingleStages(aln_type)
    /\ input' = [input EXCEPT !.pos1 = @ + 1]
    /\ UNCHANGED <<config, pc, exit_code, read2, collapsed_read, settings, err_index, err_what>>
    /\ UNCHANGED average

----------------------------------------------------------------------------
(* process_paired_ended_reads *)

(* The alignments align_paired_ended_sequences can return for mate 1 and   *)
(* the reverse complement of mate 2: the template ends at position offset  *)
(* of the longer mate, the overlap is no longer than either mate, and      *)
(* adapter_id is 0.  Alignments that are not valid are represented by one  *)
(* of each class.                                                          *)
PairedAlignments(l1, l2) ==
    {a \in [adapter_id : {0}, offset : 0..Max(l1, l2),
            length : 0..Max(1, Min(l1, l2)), n_mismatches : 0..Max(1, Min(l1, l2))] :
        /\ a.n_mismatches \in {0, a.length}
        /\ a.length = 0 \/ a.n_mismatches > 0 => a.offset = 0
        /\ a.length > 0 /\ a.n_mismatches = 0 => a.length = 1}

(* was_trimed looking at the 5' end only *)
WasTrimmed_FirstOnly(t) == t[1] # 0

(* was_trimed = trimmed.first || trimmed.second *)
WasTrimmed(t) == t[1] # 0 \/ t[2] # 0

CollapsePrefix(was_trimed) == IF was_trimed THEN "MT_" ELSE "M_"

(* The else branch of the was_trimed test lost *)
CollapseCountStats_NoElse(s, was_trimed) ==
    IF was_trimed
    THEN [s EXCEPT !.number_of_truncated_collapsed = @ + 1]
    ELSE s

CollapseCountStats(s, was_trimed) ==
    IF was_trimed
    THEN [s EXCEPT !.number_of_truncated_collapsed = @ + 1]
    ELSE [s EXCEPT !.number_of_full_length_collapsed = @ + 1]

(* A rejected consensus counted as one discarded read *)
CollapseKeepStats_OneDiscard(s, c, acceptable) ==
    IF acceptable
    THEN [s EXCEPT !.total_number_of_nucleotides = @ + c.len,
                   !.total_number_of_good_reads = @ + 1]
    ELSE [s EXCEPT !.discard1 = @ + 1]

CollapseKeepStats(s, c, acceptable) ==
    IF acceptable
    THEN [s EXCEPT !.total_number_of_nucleotides = @ + c.len,
                   !.total_number_of_good_reads = @ + 1]
    ELSE [s EXCEPT !.discard1 = @ + 1, !.discard2 = @ + 1]

CollapseStream(was_trimed) ==
    IF was_trimed THEN "collapsed_truncated" ELSE "collapsed"

(* The consensus written to its stream also when it is rejected *)
CollapseWrite_NoElse(o, c, was_trimed, acceptable) ==
    LET o1 == [o EXCEPT ![CollapseStream(was_trimed)] = write(@, c)]
    IN IF acceptable THEN o1 ELSE [o1 EXCEPT !["discarded"] = write(@, c)]

CollapseWrite(o, c, was_trimed, acceptable) ==
    IF acceptable
    THEN [o EXCEPT ![CollapseStream(was_trimed)] = write(@, c)]
    ELSE [o EXCEPT !["discarded"] = write(@, c)]

(* Both good-read increments taken from the acceptability of mate 1 *)
PairedKeepStats_GoodByMate1(s, r1, r2, acc1, acc2) ==
    LET s1 == [s EXCEPT
                 !.total_number_of_nucleotides =
                     @ + (IF acc1 THEN r1.len ELSE 0) + (IF acc1 THEN r2.len ELSE 0),
                 !.total_number_of_good_reads = @ + B2N(acc1) + B2N(acc1)]
    IN IF acc1 /\ acc2 THEN s1
       ELSE [s1 EXCEPT !.keep1 = @ + B2N(acc1), !.keep2 = @ + B2N(acc2),
                       !.discard1 = @ + B2N(~acc1), !.discard2 = @ + B2N(~acc2)]

(* keep and discard counted for every pair, retained pairs included *)
PairedKeepStats_EveryPair(s, r1, r2, acc1, acc2) ==
    [s EXCEPT
        !.total_number_of_nucleotides =
            @ + (IF acc1 THEN r1.len ELSE 0) + (IF acc1 THEN r2.len ELSE 0),
        !.total_number_of_good_reads = @ + B2N(acc1) + B2N(acc2),
        !.keep1 = @ + B2N(acc1), !.keep2 = @ + B2N(acc2),
        !.discard1 = @ + B2N(~acc1), !.discard2 = @ + B2N(~acc2)]

PairedKeepStats(s, r1, r2, acc1, acc2) ==
    LET s1 == [s EXCEPT
                 !.total_number_of_nucleotides =
                     @ + (IF acc1 THEN r1.len ELSE 0) + (IF acc1 THEN r2.len ELSE 0),
                 !.total_number_of_good_reads = @ + B2N(acc1) + B2N(acc2)]
    IN IF acc1 /\ acc2 THEN s1
       ELSE [s1 EXCEPT !.keep1 = @ + B2N(acc1), !.keep2 = @ + B2N(acc2),
                       !.discard1 = @ + B2N(~acc1), !.discard2 = @ + B2N(~acc2)]

(* Mate 2 written as it was aligned, its orientation not restored *)
PairedWrite_Mate2AsAligned(o, r1, r2, acc1, acc2) ==
    IF acc1 /\ acc2
    THEN [o EXCEPT !["output1"] = write(@, r1),
                   !["output2"] = write(@, reverse_complement(r2))]
    ELSE LET o1 == [o EXCEPT ![IF acc1 THEN "singleton" ELSE "discarded"] = write(@, r1)]
         IN [o1 EXCEPT ![IF acc2 THEN "singleton" ELSE "discarded"] =
                            write(@, reverse_complement(r2))]

(* Mate 2 routed by the acceptability of mate 1 *)
PairedWrite_Mate2ByMate1(o, r1, r2, acc1, acc2) ==
    IF acc1 /\ acc2
    THEN [o EXCEPT !["output1"] = write(@, r1), !["output2"] = write(@, r2)]
    ELSE LET o1 == [o EXCEPT ![IF acc1 THEN "singleton" ELSE "discarded"] = write(@, r1)]
         IN [o1 EXCEPT ![IF acc1 THEN "singleton" ELSE "discarded"] = write(@, r2)]

PairedWrite(o, r1, r2, acc1, acc2) ==
    IF acc1 /\ acc2
    THEN [o EXCEPT !["output1"] = write(@, r1), !["output2"] = write(@, r2)]
    ELSE LET o1 == [o EXCEPT ![IF acc1 THEN "singleton" ELSE "discarded"] = write(@, r1)]
         IN [o1 EXCEPT ![IF acc2 THEN "singleton" ELSE "discarded"] = write(@, r2)]

(* The calls of one iteration of the paired-end loop, in program order;   *)
(* the call of evaluate_alignment is recorded as the class it returned.    *)
PairedStages(aln_type, collapse) ==
    <<"read", "read", "trim_barcodes", "reverse_complement", "align", aln_type>>
    \o (IF aln_type = "valid_alignment" THEN <<"truncate">> ELSE <<>>)
    \o (IF aln_type = "valid_alignment" /\ collapse
        THEN <<"collapse", "quality_trim", "add_prefix", "is_acceptable", "write">>
        ELSE <<"reverse_complement", "quality_trim", "quality_trim",
               "is_acceptable", "is_acceptable", "write", "write">>)

(* Both reads return false: break *)
PairedEnd ==
    /\ pc = "loop"
    /\ config.paired_ended_mode
    /\ input.pos1 = input.n1
    /\ input.pos2 = input.n2
    /\ Return(TRUE)
    /\ UNCHANGED <<config, input, stats, read1, read2, collapsed_read, out, settings,
                   err_index, err_what, log>>
    /\ UNCHANGED <<average, stages>>

(* read_file_1_ok != read_file_2_ok: throw fastq_error *)
PairedMismatch ==
    /\ pc = "loop"
    /\ config.paired_ended_mode
    /\ (input.pos1 < input.n1) # (input.pos2 < input.n2)
    /\ \E l \in {MaxLen} :
          /\ read1' = IF input.pos1 < input.n1
                      THEN NewRead(input.pos1, 1, l) ELSE read1
          /\ read2' = IF input.pos2 < input.n2
                      THEN NewRead(input.pos2, 2, l) ELSE read2
    /\ input' = [input EXCEPT !.pos1 = Min(@ + 1, input.n1),
                              !.pos2 = Min(@ + 1, input.n2)]
    /\ Abort("unequal_records")
    /\ UNCHANGED <<config, stats, collapsed_read, out, settings, log>>
    /\ UNCHANGED <<average, stages>>

(* read1.read or read2.read throws; read2.read is not reached when         *)
(* read1.read throws.                                                      *)
PairedReadFails ==
    /\ pc = "loop"
    /\ config.paired_ended_mode
    /\ \E which \in 1..2, l \in {MaxLen} :
          IF which = 2 /\ input.pos1 < input.n1
          THEN /\ read1' = NewRead(input.pos1, 1, l)
               /\ input' = [input EXCEPT !.pos1 = @ + 1]
          ELSE /\ read1' = read1
               /\ input' = input
    /\ \E what \in ReadErrors : Abort(what)
    /\ UNCHANGED <<config, stats, read2, collapsed_read, out, settings, log>>
    /\ UNCHANGED <<average, stages>>

PairedIteration ==
    /\ pc = "loop"
    /\ config.paired_ended_mode
    /\ input.pos1 < input.n1
    /\ input.pos2 < input.n2
    /\ \E l1 \in {MaxLen}, l2 \in {MaxLen}, hit \in BarcodeHits,
          b \in 0..(NumBarcodes - 1), acc1 \in BOOLEAN :
        LET r1a == NewRead(input.pos1, 1, l1)
            r2a == NewRead(input.pos2, 2, l2)
            r1b == trim_barcodes_read(r1a, hit)
            s1 == trim_barcodes_stats(stats, r1a, hit, b)
            r2b == reverse_complement(r2a)
        IN \E a \in PairedAlignments(r1b.len, r2b.len) :
           LET aln_type == evaluate_alignment(a)
               valid == aln_type = "valid_alignment"
               r1c == IF valid THEN truncate_paired_1(a, r1b) ELSE r1b
               r2c == IF valid THEN truncate_paired_2(a, r2b) ELSE r2b
               s2 == ClassifyStats(s1, aln_type, a.adapter_id,
                                   truncate_paired_count(a, r1b, r2b))
           IN IF valid /\ config.collapse
              THEN LET c0 == collapse_paired_ended_sequences(a, r1c, r2c)
                   IN \E t \in Trims(c0) :
                      LET c1 == trim_sequence_by_quality(c0, t)
                          was_trimed == WasTrimmed(t)
                          c2 == add_prefix_to_header(c1, CollapsePrefix(was_trimed))
                          s3 == CollapseCountStats(s2, was_trimed)
                      IN /\ read1' = r1c
                         /\ read2' = r2c
                         /\ collapsed_read' = c2
                         /\ stats' = NextRecord(CollapseKeepStats(s3, c2, acc1))
                         /\ out' = CollapseWrite(out, c2, was_trimed, acc1)
                         /\ log' = Append(log, LogEntry(r1a.idx, "collapse", acc1, FALSE,
                                                        t[1] + t[2] > 0))
                         /\ stages' = PairedStages(aln_type, config.collapse)
              ELSE LET r2d == reverse_complement(r2c)
                   IN \E t1 \in Trims(r1c), t2 \in Trims(r2d), acc2 \in BOOLEAN :
                      LET r1e == trim_sequence_by_quality(r1c, t1)
                          r2e == trim_sequence_by_quality(r2d, t2)
                      IN /\ read1' = r1e
                         /\ read2' = r2e
                         /\ collapsed_read' = collapsed_read
                         /\ stats' = NextRecord(PairedKeepStats(s2, r1e, r2e, acc1, acc2))
                         /\ out' = PairedWrite(out, r1e, r2e, acc1, acc2)
                         /\ log' = Append(log, LogEntry(r1a.idx, "permate", acc1, acc2, FALSE))
                         /\ stages' = PairedStages(aln_type, config.collapse)
    /\ input' = [input EXCEPT !.pos1 = @ + 1, !.pos2 = @ + 1]
    /\ UNCHANGED <<config, pc, exit_code, settings, err_index, err_what>>
    /\ UNCHANGED average

----------------------------------------------------------------------------
Next ==
    \/ OpenSettings
    \/ WriteSettings
    \/ OpenStreams
    \/ SingleEnd
    \/ SingleReadFails
    \/ SingleIteration
    \/ PairedEnd
    \/ PairedMismatch
    \/ PairedReadFails
    \/ PairedIteration
    \/ WriteStatistics

Spec == Init /\ [][Next]_vars

(* The program is one sequential thread: while a stage or an iteration can *)
(* run, one does.                                                          *)
LiveSpec == Init /\ [][Next]_vars /\ WF_vars(Next)

----------------------------------------------------------------------------
(* What the properties talk about *)

Recs(sn) == out[sn]

(* How often mate m of record i was written to stream sn *)
Times(sn, i, m) ==
    Cardinality({k \in 1..Len(out[sn]) :
                    out[sn][k].idx = i /\ out[sn][k].mate = m})

(* Mate m of record i was written once, to stream sn0, and nowhere else *)
WrittenOnceTo(sn0, i, m) ==
    \A sn \in StreamNames : Times(sn, i, m) = (IF sn = sn0 THEN 1 ELSE 0)

NeverWritten(i, m) == \A sn \in StreamNames : Times(sn, i, m) = 0

LogIdx(P(_)) == {k \in 1..Len(log) : P(log[k])}

(* write_statistics was called / completed *)
StatisticsCalled ==
    \E k \in 1..Len(settings) : settings[k] \in {"statistics", "statistics_failed"}

StatisticsWritten == \E k \in 1..Len(settings) : settings[k] = "statistics"

RetainedStreams == StreamNames \ {"discarded"}

(* Log entries by the path the pair took *)
PerMate(e) == e.path = "permate"

Collapsed(e) == e.path = "collapse"

(* Pairs that were not retained whole *)
NotBoth(e) == e.path = "permate" /\ ~(e.a1 /\ e.a2)

Rejected(e) == e.path = "collapse" /\ ~e.a1

RECURSIVE SumOver(_, _)
SumOver(S, f) ==
    IF S = {} THEN 0
    ELSE LET x == CHOOSE y \in S : TRUE IN f[x] + SumOver(S \ {x}, f)

(* One step adds to the good-read and nucleotide totals exactly the reads *)
(* it appends to the retained streams and their lengths                   *)
C3_Step ==
    LET lenOf == [m \in 0..2 |-> IF m = 1 THEN read1'.len
                                 ELSE IF m = 2 THEN read2'.len
                                 ELSE collapsed_read'.len]
        new == [sn \in RetainedStreams |-> Len(out'[sn]) - Len(out[sn])]
        added == [sn \in RetainedStreams |->
                    IF new[sn] = 0 THEN 0
                    ELSE lenOf[out'[sn][Len(out'[sn])].mate]]
    IN /\ \A sn \in RetainedStreams : new[sn] \in {0, 1}
       /\ stats'.total_number_of_good_reads
             = stats.total_number_of_good_reads + SumOver(RetainedStreams, new)
       /\ stats'.total_number_of_nucleotides
             = stats.total_number_of_nucleotides + SumOver(RetainedStreams, added)

(* The stream a mate of an uncollapsed pair belongs in (l.307-318) *)
MateStream(acc, other, own) ==
    IF acc /\ other THEN own ELSE IF acc THEN "singleton" ELSE "discarded"

(* Both inputs were read to their end and every record was processed *)
PassComplete ==
    /\ input.pos1 = input.n1
    /\ config.paired_ended_mode => input.pos2 = input.n2
    /\ stats.records = input.n1
    /\ err_index = -1

(* The run was stopped by the catch block of the processing loop *)
ReadFailed == err_what \in ReadErrors \cup {"unequal_records"}

OffendingIndex ==
    IF config.paired_ended_mode THEN Min(input.pos1, input.pos2) ELSE input.pos1

----------------------------------------------------------------------------
(* C1: in paired-end mode, when one input yields a record and the other is *)
(* exhausted, the run aborts with failure and write_statistics is never    *)
(* called: no statistics summary is written.  Two files of unequal record  *)
(* counts never reach the statistics stage.                                *)
C1_UnequalCountsNoStatistics ==
    /\ err_what = "unequal_records" =>
          pc = "exit" /\ exit_code = 1 /\ ~StatisticsCalled
    /\ config.paired_ended_mode /\ input.n1 # input.n2 =>
          pc # "write_statistics" /\ ~StatisticsCalled /\ exit_code # 0

C1_Witness ==
    /\ err_what = "unequal_records"
    /\ pc = "exit"
    /\ Len(log) >= 1
    /\ Len(settings) = 1

----------------------------------------------------------------------------
(* C2 as claimed: after a complete paired-end run keep + discard over both *)
(* mates is 2 per pair on the per-mate path plus 1 per collapsed pair, and *)
(* keep1 + discard1 = keep2 + discard2 = pairs when collapsing is off.     *)
C2_Original ==
    pc = "exit" /\ exit_code = 0 /\ config.paired_ended_mode =>
        /\ stats.keep1 + stats.discard1 + stats.keep2 + stats.discard2
              = 2 * Cardinality(LogIdx(PerMate)) + Cardinality(LogIdx(Collapsed))
        /\ ~config.collapse =>
              /\ stats.keep1 + stats.discard1 = Len(log)
              /\ stats.keep2 + stats.discard2 = Len(log)

(* C2 amended: keep counts singletons only.  keep1 + discard1 and          *)
(* keep2 + discard2 each count the pairs that were not retained whole: the *)
(* pairs on the per-mate path with at least one unacceptable mate, and the *)
(* collapsed pairs whose consensus was rejected (one discard per mate).    *)
C2_KeepDiscardClosure ==
    config.paired_ended_mode =>
        /\ stats.keep1 + stats.discard1
              = Cardinality(LogIdx(NotBoth)) + Cardinality(LogIdx(Rejected))
        /\ stats.keep2 + stats.discard2 = stats.keep1 + stats.discard1

C2_Witness ==
    /\ pc = "exit" /\ exit_code = 0
    /\ \E j \in LogIdx(Rejected), k \in LogIdx(PerMate) :
          log[k].a1 /\ ~log[k].a2

----------------------------------------------------------------------------
(* C3: total_number_of_nucleotides is the sum of the lengths of the reads  *)
(* counted in total_number_of_good_reads, the reads written to the streams *)
(* other than the discarded one: every step adds to it the lengths of the  *)
(* reads the step retains, and adds them to nothing else.                  *)
C3_NucleotidesOfRetainedReads == [][C3_Step]_vars

----------------------------------------------------------------------------
(* C4: each mate of a pair that was not collapsed is written to exactly    *)
(* one stream: both acceptable, mate 1 to output1 and mate 2 to output2;   *)
(* one acceptable, it to singleton and the other to discarded; none, both  *)
(* to discarded.                                                           *)
C4_PerMateDisposition ==
    \A k \in LogIdx(PerMate) :
        LET e == log[k]
        IN /\ WrittenOnceTo(MateStream(e.a1, e.a2, "output1"), e.idx, 1)
           /\ WrittenOnceTo(MateStream(e.a2, e.a1, "output2"), e.idx, 2)
           /\ NeverWritten(e.idx, 0)

C4_Witness ==
    \E j \in LogIdx(PerMate), k \in LogIdx(PerMate) :
        /\ log[j].a1 /\ log[j].a2
        /\ ~log[k].a1 /\ log[k].a2

----------------------------------------------------------------------------
(* C5: with collapsing enabled every valid pair takes the collapse path,   *)
(* which writes exactly one record, the consensus, to the collapsed, the   *)
(* collapsed-truncated or the discarded stream, and writes neither mate.   *)
C5_CollapsedPairOneRecord ==
    /\ config.collapse =>
          Cardinality(LogIdx(Collapsed)) = stats.well_aligned_reads
    /\ ~config.collapse => LogIdx(Collapsed) = {}
    /\ \A k \in LogIdx(Collapsed) :
          LET e == log[k]
          IN /\ NeverWritten(e.idx, 1)
             /\ NeverWritten(e.idx, 2)
             /\ \E sn \in {"collapsed", "collapsed_truncated", "discarded"} :
                    WrittenOnceTo(sn, e.idx, 0)

C5_Witness ==
    \E j \in LogIdx(Collapsed), k \in LogIdx(Collapsed) :
        log[j].a1 /\ ~log[k].a1

----------------------------------------------------------------------------
(* C6: every processed record or pair increments exactly one of            *)
(* well_aligned_reads, poorly_aligned_reads, unaligned_reads: at every     *)
(* iteration boundary records is their sum, and the number of records or   *)
(* pairs processed, the collapsed ones included.                           *)
C6_ClassCountersPartition ==
    /\ stats.records = stats.well_aligned_reads + stats.poorly_aligned_reads
                         + stats.unaligned_reads
    /\ stats.records = Len(log)

C6_Witness ==
    /\ pc = "exit" /\ exit_code = 0
    /\ stats.poorly_aligned_reads = 1
    /\ LogIdx(Collapsed) # {}

----------------------------------------------------------------------------
(* C7: remove_adapter_sequences returns 0 only if every stage succeeded;   *)
(* when a stage fails it returns non-zero and no statistics report has     *)
(* been produced; statistics are only ever written for a complete pass.    *)
C7_ExitStatus ==
    /\ pc = "exit" /\ exit_code = 0 =>
          /\ settings = <<"settings", "statistics">>
          /\ err_what = "none"
          /\ PassComplete
    /\ pc = "exit" /\ err_what # "none" =>
          exit_code = 1 /\ ~StatisticsWritten
    /\ pc = "exit" /\ err_what \notin {"none", "write_statistics"} =>
          ~StatisticsCalled
    /\ pc = "exit" => exit_code \in {0, 1}
    /\ pc = "write_statistics" \/ StatisticsCalled => PassComplete

C7_Witness ==
    /\ pc = "exit" /\ exit_code = 1
    /\ err_what = "write_statistics"
    /\ stats.records = MaxRecords

----------------------------------------------------------------------------
(* C8: a malformed record, a pair-count mismatch or a read failure stops   *)
(* the run at once, and the index reported is the number of records        *)
(* (pairs) completely processed, the zero-based index of the offending     *)
(* record: nothing at or after that index is counted or written.           *)
C8_AbortAtOffendingRecord ==
    /\ ReadFailed =>
          /\ pc = "exit" /\ exit_code = 1
          /\ err_index = Len(log)
          /\ err_index = OffendingIndex
          /\ stats.records = err_index
          /\ \A sn \in StreamNames : \A k \in 1..Len(Recs(sn)) :
                 Recs(sn)[k].idx < err_index
    /\ ~ReadFailed => err_index = -1

C8_Witness ==
    /\ err_what = "malformed_record"
    /\ err_index = 1
    /\ config.paired_ended_mode
    /\ input.pos1 = 2

----------------------------------------------------------------------------
(* C9: every output stream holds its records in the order of the input     *)
(* records (pairs) they come from.                                         *)
C9_StreamsKeepInputOrder ==
    \A sn \in StreamNames :
        \A i \in 1..Len(Recs(sn)), j \in 1..Len(Recs(sn)) :
            i < j => Recs(sn)[i].idx <= Recs(sn)[j].idx

C9_Witness ==
    \E sn \in {"discarded", "singleton"} :
        /\ Len(Recs(sn)) >= 2
        /\ Recs(sn)[1].idx < Recs(sn)[Len(Recs(sn))].idx

----------------------------------------------------------------------------
(* C10: the consensus of a collapsed pair has prefix "M_" exactly when     *)
(* quality trimming removed nothing from either end and "MT_" otherwise;   *)
(* an acceptable consensus goes to the collapsed stream exactly when its   *)
(* prefix is "M_" and to the collapsed-truncated stream exactly when it is *)
(* "MT_", so the collapsed stream holds only "M_" records and the          *)
(* collapsed-truncated stream only "MT_" records.                          *)
C10_CollapsePrefixAndStream ==
    /\ \A k \in LogIdx(Collapsed) :
          LET e == log[k]
          IN \A sn \in StreamNames : \A p \in 1..Len(Recs(sn)) :
                LET h == Recs(sn)[p]
                IN h.idx = e.idx /\ h.mate = 0 =>
                     /\ h.prefix = (IF e.trimmed THEN "MT_" ELSE "M_")
                     /\ e.a1 => (sn = "collapsed" <=> h.prefix = "M_")
                     /\ e.a1 => (sn = "collapsed_truncated" <=> h.prefix = "MT_")
    /\ \A k \in 1..Len(Recs("collapsed")) :
          Recs("collapsed")[k].prefix = "M_" /\ Recs("collapsed")[k].mate = 0
    /\ \A k \in 1..Len(Recs("collapsed_truncated")) :
          /\ Recs("collapsed_truncated")[k].prefix = "MT_"
          /\ Recs("collapsed_truncated")[k].mate = 0

C10_Witness ==
    /\ Len(Recs("collapsed")) = 1
    /\ Len(Recs("collapsed_truncated")) = 1

----------------------------------------------------------------------------
(* C11: write_statistics reports the average retained read length as       *)
(* total_number_of_nucleotides / total_number_of_good_reads when there are *)
(* retained reads and as 0 when there are none; it never divides by zero,  *)
(* also when the input is empty or every read was discarded.               *)
C11_AverageGuarded ==
    /\ StatisticsCalled =>
          /\ average.den # 0
          /\ stats.total_number_of_good_reads > 0 =>
                average.num * stats.total_number_of_good_reads
                   = stats.total_number_of_nucleotides * average.den
          /\ stats.total_number_of_good_reads = 0 => average = ZeroLength
    /\ ~StatisticsCalled => average = NoAverage

C11_Witness ==
    /\ StatisticsWritten
    /\ stats.records = MaxRecords
    /\ stats.total_number_of_good_reads = 0
    /\ stats.discard1 = MaxRecords

(* How the loop and the run ended *)
LoopSucceeded == pc = "write_statistics" \/ StatisticsCalled

LoopAborted == pc = "exit" /\ err_what \in ReadErrors \cup {"unequal_records"}

ReportWritten == exit_code = 0 /\ StatisticsWritten /\ err_what = "none"

Aborted == exit_code = 1 /\ err_what # "none" /\ ~StatisticsWritten

----------------------------------------------------------------------------
(* The safety half of C12 *)
C12_LoopEnds ==
    /\ LoopSucceeded =>
          /\ input.pos1 = input.n1
          /\ stats.records = input.n1
          /\ config.paired_ended_mode =>
                input.pos2 = input.n2 /\ input.n1 = input.n2
          /\ err_index = -1
    /\ LoopAborted => exit_code = 1 /\ ~StatisticsCalled
    /\ config.paired_ended_mode /\ input.n1 # input.n2 => ~LoopSucceeded
    /\ pc = "exit" => ReportWritten \/ Aborted

(* C12: on finite inputs each loop terminates.  The single-end loop ends   *)
(* successfully exactly when read finds the input exhausted, the           *)
(* paired-end loop exactly when both reads find their input exhausted in   *)
(* the same iteration; otherwise the run is aborted.  Every run eventually *)
(* ends, with the report written or aborted.                               *)
C12_Termination == []C12_LoopEnds /\ <>(pc = "exit")

C12_Witness ==
    /\ pc = "exit"
    /\ ReportWritten
    /\ config.paired_ended_mode
    /\ input.pos2 = MaxRecords
    /\ Len(log) = MaxRecords

----------------------------------------------------------------------------
(* Where a call stands in the trace of the last iteration *)
StagePos(st) == {k \in 1..Len(stages) : stages[k] = st}

First(S) == CHOOSE k \in S : \A j \in S : k <= j

Last(S) == CHOOSE k \in S : \A j \in S : j <= k

LastEntry == log[Len(log)]

(* C13: in paired-end mode every mate 2 record written (to output2,        *)
(* singleton or discarded) was reverse-complemented exactly twice in its   *)
(* iteration, before the alignment and again after classification and      *)
(* truncation and before quality trimming, so it is written in its         *)
(* original orientation.  Only the collapse branch skips the second        *)
(* reversal; there mate 2 is never written, and the reversed record is     *)
(* not carried into the next iteration.                                    *)
C13_Mate2Orientation ==
    config.paired_ended_mode =>
        /\ \A sn \in StreamNames : \A k \in 1..Len(Recs(sn)) :
               Recs(sn)[k].mate = 2 =>
                   /\ sn \in {"output2", "singleton", "discarded"}
                   /\ ~Recs(sn)[k].rc
        /\ \A k \in LogIdx(Collapsed) : NeverWritten(log[k].idx, 2)
        /\ \A k \in LogIdx(PerMate) :
               \E sn \in {"output2", "singleton", "discarded"} :
                   WrittenOnceTo(sn, log[k].idx, 2)
        /\ log # <<>> /\ PerMate(LastEntry) =>
               /\ Cardinality(StagePos("reverse_complement")) = 2
               /\ First(StagePos("reverse_complement")) < First(StagePos("align"))
               /\ \A k \in StagePos("align") \cup StagePos("truncate")
                            \cup (StagePos("valid_alignment")
                                  \cup StagePos("poor_alignment")
                                  \cup StagePos("not_aligned")) :
                      k < Last(StagePos("reverse_complement"))
               /\ Last(StagePos("reverse_complement")) < First(StagePos("quality_trim"))
               /\ read2.idx = LastEntry.idx => ~read2.rc
        /\ log # <<>> /\ Collapsed(LastEntry) =>
               /\ Cardinality(StagePos("reverse_complement")) = 1
               /\ read2.idx = LastEntry.idx => read2.rc

C13_Witness ==
    /\ config.paired_ended_mode
    /\ \E j \in LogIdx(Collapsed), k \in LogIdx(PerMate) :
          /\ j < k
          /\ WrittenOnceTo("singleton", log[k].idx, 2)
          /\ read2.idx = log[k].idx

----------------------------------------------------------------------------
(* The place of a stage in the single-end pipeline *)
StageRank(st) ==
    CASE st = "read" -> 1
      [] st = "trim_barcodes" -> 2
      [] st = "align" -> 3
      [] st \in {"valid_alignment", "poor_alignment", "not_aligned"} -> 4
      [] st = "truncate" -> 5
      [] st = "quality_trim" -> 6
      [] st = "is_acceptable" -> 7
      [] st = "write" -> 8
      [] OTHER -> 0

Single(e) == e.path = "single"

(* C14: in single-end mode every record passes barcode trim, align,        *)
(* classify, truncate (exactly when the class is valid), quality trim,     *)
(* acceptability, write, in this order; a poor or unaligned record is      *)
(* never truncated, quality trimming follows truncation, and the record is *)
(* written exactly once, to the output stream if acceptable and to the     *)
(* discarded stream otherwise.                                             *)
C14_SingleEndStageOrder ==
    ~config.paired_ended_mode =>
        /\ log # <<>> =>
              /\ \A j \in 1..Len(stages), k \in 1..Len(stages) :
                     j < k => 0 < StageRank(stages[j])
                              /\ StageRank(stages[j]) < StageRank(stages[k])
              /\ \A st \in {"read", "trim_barcodes", "align", "quality_trim",
                             "is_acceptable", "write"} :
                     Cardinality(StagePos(st)) = 1
              /\ Cardinality(StagePos("valid_alignment")
                             \cup StagePos("poor_alignment")
                             \cup StagePos("not_aligned")) = 1
              /\ StagePos("truncate") # {} <=> StagePos("valid_alignment") # {}
        /\ \A k \in 1..Len(log) :
              /\ Single(log[k])
              /\ WrittenOnceTo(IF log[k].a1 THEN "output1" ELSE "discarded",
                               log[k].idx, 1)
        /\ \A sn \in StreamNames \ {"output1", "discarded"} : Recs(sn) = <<>>

C14_Witness ==
    /\ ~config.paired_ended_mode
    /\ Len(log) = 2
    /\ log[1].a1 /\ ~log[2].a1
    /\ StagePos("truncate") # {}
    /\ read1.len = 0

----------------------------------------------------------------------------
(* C15 as claimed: in every paired-end run the discarded stream holds      *)
(* discard1 + discard2 records and the singleton stream keep1 + keep2      *)
(* records, at every iteration boundary, with collapsing enabled too.      *)
C15_Original ==
    config.paired_ended_mode =>
        /\ Len(Recs("discarded")) = stats.discard1 + stats.discard2
        /\ Len(Recs("singleton")) = stats.keep1 + stats.keep2

(* C15 amended: the singleton stream holds keep1 + keep2 records.  A       *)
(* rejected consensus is one record of the discarded stream counted in     *)
(* both discard1 and discard2, so the discarded stream holds               *)
(* discard1 + discard2 records less one per rejected consensus; it holds   *)
(* discard1 + discard2 records when collapsing is disabled.                *)
C15_StreamCounts ==
    config.paired_ended_mode =>
        /\ Len(Recs("singleton")) = stats.keep1 + stats.keep2
        /\ Len(Recs("discarded"))
              = stats.discard1 + stats.discard2 - Cardinality(LogIdx(Rejected))
        /\ ~config.collapse =>
              Len(Recs("discarded")) = stats.discard1 + stats.discard2

C15_Witness ==
    /\ config.paired_ended_mode
    /\ LogIdx(Rejected) # {}
    /\ Len(Recs("singleton")) = 1
    /\ Len(Recs("discarded")) = 2

----------------------------------------------------------------------------
(* C16: in a paired-end run without collapsing every pair adds two units   *)
(* to the disposition counters: at every iteration boundary                *)
(* total_number_of_good_reads + discard1 + discard2 = 2 * records, and     *)
(* total_number_of_good_reads is the number of records written to the      *)
(* output1, output2 and singleton streams together.                        *)
C16_TwoUnitsPerPair ==
    config.paired_ended_mode /\ ~config.collapse =>
        /\ stats.total_number_of_good_reads + stats.discard1 + stats.discard2
              = 2 * stats.records
        /\ stats.total_number_of_good_reads
              = Len(Recs("output1")) + Len(Recs("output2")) + Len(Recs("singleton"))

C16_Witness ==
    /\ config.paired_ended_mode /\ ~config.collapse
    /\ stats.records = MaxRecords
    /\ Len(Recs("output2")) = 1
    /\ stats.keep2 = 1
    /\ stats.discard1 = 1

----------------------------------------------------------------------------
(* C17: in single-end mode, at every iteration boundary and at the end of  *)
(* a complete run, keep1 + discard1 = records, total_number_of_good_reads  *)
(* = keep1 = the number of records written to the output stream, and       *)
(* discard1 = the number of records written to the discarded stream.       *)
C17_SingleEndCounters ==
    ~config.paired_ended_mode =>
        /\ stats.keep1 + stats.discard1 = stats.records
        /\ stats.total_number_of_good_reads = stats.keep1
        /\ stats.keep1 = Len(Recs("output1"))
        /\ stats.discard1 = Len(Recs("discarded"))

C17_Witness ==
    /\ ~config.paired_ended_mode
    /\ pc = "exit" /\ exit_code = 0
    /\ stats.records = MaxRecords
    /\ stats.keep1 = 1
    /\ stats.discard1 = MaxRecords - 1

----------------------------------------------------------------------------
(* C18: with collapsing enabled every valid pair increments exactly one of *)
(* number_of_full_length_collapsed and number_of_truncated_collapsed,      *)
(* whether its consensus is then accepted or rejected, so at every         *)
(* iteration boundary their sum is well_aligned_reads; with collapsing     *)
(* disabled both stay 0.                                                   *)
C18_CollapsedCounters ==
    /\ config.paired_ended_mode /\ config.collapse =>
          /\ stats.number_of_full_length_collapsed
                + stats.number_of_truncated_collapsed = stats.well_aligned_reads
          /\ stats.number_of_truncated_collapsed
                = Cardinality({k \in LogIdx(Collapsed) : log[k].trimmed})
          /\ stats.number_of_full_length_collapsed
                = Cardinality({k \in LogIdx(Collapsed) : ~log[k].trimmed})
    /\ ~config.collapse =>
          /\ stats.number_of_full_length_collapsed = 0
          /\ stats.number_of_truncated_collapsed = 0

C18_Witness ==
    /\ config.collapse
    /\ stats.number_of_full_length_collapsed = 1
    /\ stats.number_of_truncated_collapsed = 1
    /\ \E k \in LogIdx(Rejected) : ~log[k].trimmed

----------------------------------------------------------------------------
AdapterIds == 0..(NumAdapters - 1)

AdapterHits(s) == SumOver(AdapterIds, s.number_of_reads_with_adapter)

(* The per-adapter counters against the count of valid alignments *)
C19_Sums ==
    /\ ~config.paired_ended_mode => AdapterHits(stats) = stats.well_aligned_reads
    /\ config.paired_ended_mode => AdapterHits(stats) <= 2 * stats.well_aligned_reads

(* One step: without a valid alignment no per-adapter counter changes;     *)
(* with one, the counter of one adapter grows, by 1 for a single read and  *)
(* by the number of mates shortened for a pair.  For a collapsed pair the  *)
(* mates are left as truncated, and the number is read off their lengths.  *)
C19_Step ==
    LET c == stats.number_of_reads_with_adapter
        d == stats'.number_of_reads_with_adapter
        len1 == MaxLen - B2N(input.barcoded)
        len2 == MaxLen
    IN /\ stats'.well_aligned_reads = stats.well_aligned_reads => d = c
       /\ stats'.well_aligned_reads # stats.well_aligned_reads =>
             /\ stats'.well_aligned_reads = stats.well_aligned_reads + 1
             /\ stats'.poorly_aligned_reads = stats.poorly_aligned_reads
             /\ stats'.unaligned_reads = stats.unaligned_reads
             /\ \E id \in AdapterIds, n \in 0..2 :
                    /\ d = [c EXCEPT ![id] = @ + n]
                    /\ ~config.paired_ended_mode => n = 1
                    /\ Collapsed(log'[Len(log')]) =>
                          n = B2N(read1'.len < len1) + B2N(read2'.len < len2)

(* C19: the per-adapter hit counters change only for alignments classified *)
(* valid.  In single-end mode their sum is well_aligned_reads; in          *)
(* paired-end mode a valid pair adds the number of mates shortened (0, 1   *)
(* or 2) to the counter of its adapter, so the sum is at most              *)
(* 2 * well_aligned_reads; poor and unaligned records leave every counter  *)
(* unchanged.                                                              *)
C19_AdapterCounters == []C19_Sums /\ [][C19_Step]_vars

C19_Witness ==
    /\ config.paired_ended_mode
    /\ stats.well_aligned_reads = 1
    /\ stats.poorly_aligned_reads = 1
    /\ stats.number_of_reads_with_adapter[0] = 1

====
